---- MODULE Spec2Model ----
(***************************************************************************)
(* Model of the AT-AI support copilot: the ticket classifier               *)
(* (src/ai_classifier.py) and the knowledge base (src/knowledge_base.py).  *)
(*                                                                         *)
(* Text is modelled as a sequence of tokens.  A model response is a        *)
(* sequence over: the two brace characters, a run of non-brace commentary  *)
(* text, and "key": "value" members of a JSON object (the separating       *)
(* commas and quotes are part of the member token).  Python dicts are      *)
(* functions from keys to values.                                          *)
(***************************************************************************)
EXTENDS Integers, Sequences, FiniteSets, TLC

\* ------------------------------------------------------------------ bounds
MaxPairs == 3      \* members of a JSON object in a model response
MaxTickets == 2    \* tickets in one bulk classification
MaxLinks == 3      \* anchors on the seed page
MaxPages == 2      \* largest max_pages given to scrape_documentation
MaxBatch == 2      \* documents in one call of create_embeddings
MaxTopK == 3       \* largest top_k given to search_relevant_content

\* ----------------------------------------------------------- src/config.py
TOPIC_TAGS ==
    {"How-to", "Product", "Connector", "Lineage", "API/SDK", "SSO",
     "Glossary", "Best practices", "Sensitive data"}

SENTIMENT_OPTIONS == {"Frustrated", "Curious", "Angry", "Neutral", "Positive"}

PRIORITY_LEVELS == {"P0 (High)", "P1 (Medium)", "P2 (Low)"}

\* ------------------------------------------------------------ text tokens
Tok(k, v) == [key |-> k, val |-> v]

LBRACE == Tok("{", "")
RBRACE == Tok("}", "")
CHATTER == Tok("x", "")

IsMember(t) == t.key \notin {"{", "}", "x"}

\* Python's None, as the value dict.get gives for a missing key.
None == "<None>"

\* The members a model response may carry: for each validated key one value
\* inside its enumeration and one outside, and the free-text reasoning.
ResponseMembers ==
    { Tok("topic", "Connector"), Tok("topic", "Not-A-Real-Topic"),
      Tok("sentiment", "Angry"), Tok("sentiment", "Meh"),
      Tok("priority", "P0 (High)"), Tok("priority", "P9"),
      Tok("reasoning", "because") }

SeqsUpTo(S, n) == UNION { [1..k -> S] : k \in 0..n }

\* What may stand before and after the JSON body: nothing, commentary, a
\* stray brace, a second pair of braces.
Affixes == { <<>>, <<CHATTER>>, <<LBRACE>>, <<RBRACE>>, <<LBRACE, RBRACE>> }

Bodies ==
    {<<>>} \cup { <<LBRACE>> \o ms \o <<RBRACE>> : ms \in SeqsUpTo(ResponseMembers, MaxPairs) }

ResponseTexts == { p \o b \o s : p \in Affixes, b \in Bodies, s \in Affixes }

\* What the completion call can do: raise, answer with no choices, answer
\* with a message whose content is None, or answer with text.
Outcome(k, t) == [kind |-> k, text |-> t]

FailedOutcomes == { Outcome("raise", <<>>), Outcome("nochoices", <<>>), Outcome("none", <<>>) }

Outcomes == FailedOutcomes \cup { Outcome("text", t) : t \in ResponseTexts }

\* ------------------------------------------- src/ai_classifier.py: parsing
\* re.search(r'\{.*\}', text, re.DOTALL): leftmost "{" and, the star being
\* greedy and the dot matching everything, the last "}" after it.
BracePositions(text) ==
    { ij \in (DOMAIN text) \X (DOMAIN text) :
        /\ ij[1] < ij[2]
        /\ text[ij[1]] = LBRACE
        /\ text[ij[2]] = RBRACE }

Min(S) == CHOOSE x \in S : \A y \in S : x <= y
Max(S) == CHOOSE x \in S : \A y \in S : x >= y

re_search(text) ==
    IF BracePositions(text) = {}
    THEN <<>>
    ELSE LET first == Min({ ij[1] : ij \in BracePositions(text) })
             last == Max({ ij[2] : ij \in BracePositions(text) })
         IN SubSeq(text, first, last)

\* json.loads of a string that begins with "{" and ends with "}": it is an
\* object exactly when everything between the braces is a member; a stray
\* brace or commentary inside raises JSONDecodeError.
json_parses(m) == \A i \in 2..(Len(m) - 1) : IsMember(m[i])

\* The dict json.loads builds: a repeated key keeps its last value.
json_loads(m) ==
    LET inner == SubSeq(m, 2, Len(m) - 1)
        keys == { inner[i].key : i \in DOMAIN inner }
        lastAt(k) == Max({ i \in DOMAIN inner : inner[i].key = k })
    IN [ k \in keys |-> inner[lastAt(k)].val ]

\* dict.get(key)
Get(d, k) == IF k \in DOMAIN d THEN d[k] ELSE None

_get_default_classification ==
    [ topic |-> "Product",
      sentiment |-> "Neutral",
      priority |-> "P1 (Medium)",
      reasoning |-> "Default classification due to parsing error" ]

\* What a call gives back: a value, or an exception that leaves it.
Ret(v) == [exc |-> None, val |-> v]
Raise(e) == [exc |-> e, val |-> None]

IsValidClassificationNoSentiment(c) ==
    /\ Get(c, "topic") \in TOPIC_TAGS
    /\ Get(c, "priority") \in PRIORITY_LEVELS

IsValidClassification(c) ==
    /\ Get(c, "topic") \in TOPIC_TAGS
    /\ Get(c, "sentiment") \in SENTIMENT_OPTIONS
    /\ Get(c, "priority") \in PRIORITY_LEVELS

\* A plausible slip: the defaults fill in only the fields that failed.
PartialDefault(c) ==
    [ k \in {"topic", "sentiment", "priority", "reasoning"} |->
        CASE k = "topic" -> IF Get(c, k) \in TOPIC_TAGS THEN c[k] ELSE "Product"
          [] k = "sentiment" -> IF Get(c, k) \in SENTIMENT_OPTIONS THEN c[k] ELSE "Neutral"
          [] k = "priority" -> IF Get(c, k) \in PRIORITY_LEVELS THEN c[k] ELSE "P1 (Medium)"
          [] OTHER -> IF k \in DOMAIN c THEN c[k] ELSE _get_default_classification[k] ]

ParseClassificationPartial(content) ==
    IF content.kind = "none"
    THEN Raise("TypeError")
    ELSE LET m == re_search(content.text)
         IN IF m # <<>> /\ json_parses(m)
            THEN Ret(PartialDefault(json_loads(m)))
            ELSE Ret(_get_default_classification)

\* _parse_classification(classification_text).  re.search on None raises
\* TypeError, which the except clause (JSONDecodeError, AttributeError) does
\* not catch; a JSONDecodeError is caught and gives the default.
_parse_classification(content) ==
    IF content.kind = "none"
    THEN Raise("TypeError")
    ELSE LET m == re_search(content.text)
         IN IF m # <<>> /\ json_parses(m) /\ IsValidClassification(json_loads(m))
            THEN Ret(json_loads(m))
            ELSE Ret(_get_default_classification)

\* client.chat.completions.create(...) followed by
\* response.choices[0].message.content
completion_content(outcome) ==
    CASE outcome.kind = "raise" -> Raise("APIError")
      [] outcome.kind = "nochoices" -> Raise("IndexError")
      [] OTHER -> Ret(outcome)

\* The (title, description) the prompt is built from.
_create_classification_prompt(t, d) == [title |-> t, description |-> d]

\* classify_ticket: the try block, and except Exception around all of it.
classify_ticket(outcome) ==
    LET content == completion_content(outcome)
        parsed == IF content.exc # None THEN content ELSE _parse_classification(content.val)
    IN IF parsed.exc # None
       THEN Ret(_get_default_classification)
       ELSE parsed

\* ------------------------------------------------- classify_bulk_tickets
\* dict.update on d with the entries of c
Update(d, c) == [ k \in (DOMAIN d) \cup (DOMAIN c) |-> IF k \in DOMAIN c THEN c[k] ELSE d[k] ]

\* dict.get(key, default)
GetOr(d, k, default) == IF k \in DOMAIN d THEN d[k] ELSE default

TicketFull ==
    [ id |-> "TICKET-245", title |-> "Connector fails", description |-> "Snowflake times out",
      customer_email |-> "a@example.com", created_at |-> "2024-01-15" ]

TicketBare ==
    [ id |-> "TICKET-246", description |-> "How do I add a term?", assignee |-> "sam" ]

Tickets == {TicketFull, TicketBare}

ValidJson ==
    <<LBRACE, Tok("topic", "Connector"), Tok("sentiment", "Angry"),
      Tok("priority", "P0 (High)"), Tok("reasoning", "because"), RBRACE>>

BulkOutcomes ==
    { Outcome("raise", <<>>),
      Outcome("none", <<>>),
      Outcome("text", <<CHATTER>>),
      Outcome("text", <<CHATTER>> \o ValidJson),
      Outcome("text", <<LBRACE, Tok("topic", "Not-A-Real-Topic"), Tok("sentiment", "Angry"),
                        Tok("priority", "P0 (High)"), RBRACE>>),
      Outcome("text", <<LBRACE, Tok("topic", "Lineage"), Tok("sentiment", "Curious"),
                        Tok("priority", "P2 (Low)"), Tok("id", "TICKET-0"), RBRACE>>) }

\* One pass of the loop body after the classification is known: the input
\* ticket as the pass leaves it, and the list with the merged copy added.
BulkPassPrepend(ticket, c, acc) ==
    [ ticket |-> ticket, acc |-> <<Update(ticket, c)>> \o acc ]

BulkPass(ticket, c, acc) ==
    LET classified_ticket == Update(ticket, c)    \* ticket.copy(), then update
    IN [ ticket |-> ticket, acc |-> Append(acc, classified_ticket) ]

\* ------------------------------------------- src/knowledge_base.py: text
\* Page text is a sequence of maximal runs: n non-whitespace characters
\* ("w") or n whitespace characters ("s").
Run(k, n) == [kind |-> k, n |-> n]

RECURSIVE TextLen(_)
TextLen(t) == IF t = <<>> THEN 0 ELSE Head(t).n + TextLen(Tail(t))

\* str.strip()
StripLeft(t) == IF t # <<>> /\ Head(t).kind = "s" THEN Tail(t) ELSE t
StripRight(t) == IF t # <<>> /\ t[Len(t)].kind = "s" THEN SubSeq(t, 1, Len(t) - 1) ELSE t
strip(t) == StripRight(StripLeft(t))

\* re.sub(r'\s+', ' ', text)
collapse_whitespace(t) == [ i \in DOMAIN t |-> IF t[i].kind = "s" THEN Run("s", 1) ELSE t[i] ]

\* text[:n], n >= 0
RECURSIVE Take(_, _)
Take(t, n) ==
    IF t = <<>> \/ n <= 0 THEN <<>>
    ELSE IF Head(t).n <= n THEN <<Head(t)>> \o Take(Tail(t), n - Head(t).n)
    ELSE <<Run(Head(t).kind, n)>>

\* ------------------------------------------ src/knowledge_base.py: URLs
\* A URL is the sequence <<scheme, netloc, path piece, ...>>; an href is a
\* URL or, when relative, only path pieces.  The skip patterns are pieces
\* of their own, so "pattern in url" is membership among the pieces.
Schemes == {"https://"}

SeedUrl == <<"https://", "seed.example">>

\* urljoin(base_url, href) for an absolute href and for a root-relative one
urljoin(base, href) ==
    IF href # <<>> /\ href[1] \in Schemes THEN href ELSE SubSeq(base, 1, 2) \o href

\* urlparse(url).netloc
netloc(url) == url[2]

\* str.lower(), piece by piece
LowerPiece(x) ==
    CASE x = ".PDF" -> ".pdf"
      [] x = "/Report" -> "/report"
      [] x = "/API/" -> "/api/"
      [] OTHER -> x

lower(url) == [ i \in DOMAIN url |-> LowerPiece(url[i]) ]

skip_patterns == {".pdf", ".zip", ".jpg", ".png", ".gif", "/api/", "/search"}

Contains(url, pattern) == \E i \in DOMAIN url : url[i] = pattern

IsDocPageCaseSensitive(url, base_url) ==
    /\ netloc(url) = netloc(base_url)
    /\ \A pattern \in skip_patterns : ~Contains(url, pattern)

_is_doc_page(url, base_url) ==
    /\ netloc(url) = netloc(base_url)
    /\ \A pattern \in skip_patterns : ~Contains(lower(url), pattern)

\* The hrefs a seed page may carry.
Hrefs ==
    { <<"https://", "seed.example", "/docs/a">>,
      <<"https://", "other.example", "/x">>,
      <<"https://", "seed.example", "/file", ".pdf">>,
      <<"https://", "seed.example", "/Report", ".PDF">>,
      <<"/docs/b">> }

\* The first loop of scrape_documentation: visited_urls is still empty
\* while it runs, so only the filter and the length test decide.
RECURSIVE CollectLinks(_, _, _, _)
CollectLinks(links, base_url, max_pages, doc_links) ==
    IF links = <<>> THEN doc_links
    ELSE LET full_url == urljoin(base_url, Head(links))
         IN CollectLinks(Tail(links), base_url, max_pages,
                IF _is_doc_page(full_url, base_url) /\ Len(doc_links) < max_pages
                THEN Append(doc_links, full_url)
                ELSE doc_links)

\* ------------------------------------ src/knowledge_base.py: _scrape_page
\* What fetching a page gives: an error (the request raises, or the status
\* is an error), or a document with an optional <title>, the text of the
\* first content selector that matches, and the text of <body>.
Some(v) == [present |-> TRUE, val |-> v]
Absent == [present |-> FALSE, val |-> <<>>]
NoTitle == [present |-> FALSE, val |-> ""]

Page(title_, region, body) == [status |-> "ok", title |-> title_, region |-> region, body |-> body]

PageError == [status |-> "error", title |-> NoTitle, region |-> Absent, body |-> Absent]

Pages ==
    { PageError,
      Page(Some("Short"), Some(<<Run("w", 50)>>), Absent),
      Page(Some("Edge"), Some(<<Run("w", 100)>>), Absent),
      Page(Some("Over"), Some(<<Run("w", 101)>>), Absent),
      Page(Some("Gaps"), Some(<<Run("w", 60), Run("s", 50), Run("w", 39)>>), Absent),
      Page(Some("Long"), Some(<<Run("w", 1500), Run("s", 2), Run("w", 1000)>>), Absent),
      Page(NoTitle, Some(<<Run("s", 4)>>), Some(<<Run("s", 3), Run("w", 150), Run("s", 3)>>)) }

ContentLimit == 2000
MinContent == 100

NoDoc == [ok |-> FALSE, doc |-> <<>>]

ScrapePageLoose(url, page) ==
    IF page.status = "error" THEN NoDoc
    ELSE LET title_text == IF page.title.present THEN page.title.val ELSE "Untitled"
             region_text == IF page.region.present THEN strip(page.region.val) ELSE <<>>
             content_text == IF region_text # <<>> THEN region_text
                             ELSE IF page.body.present THEN strip(page.body.val) ELSE <<>>
             cut == Take(collapse_whitespace(content_text), ContentLimit)
         IN IF cut # <<>> /\ TextLen(cut) >= MinContent
            THEN [ok |-> TRUE, doc |-> [url |-> url, title |-> title_text, content |-> cut]]
            ELSE NoDoc

\* _scrape_page(url); the scraped_at timestamp of the record is left out.
_scrape_page(url, page) ==
    IF page.status = "error" THEN NoDoc
    ELSE LET title_text == IF page.title.present THEN page.title.val ELSE "Untitled"
             region_text == IF page.region.present THEN strip(page.region.val) ELSE <<>>
             content_text == IF region_text # <<>> THEN region_text
                             ELSE IF page.body.present THEN strip(page.body.val) ELSE <<>>
             cut == Take(collapse_whitespace(content_text), ContentLimit)
         IN IF cut # <<>> /\ TextLen(cut) > MinContent
            THEN [ok |-> TRUE, doc |-> [url |-> url, title |-> title_text, content |-> cut]]
            ELSE NoDoc

\* -------------------------------- src/knowledge_base.py: embedding index
\* Embedding vectors have two integer components (one embedding model gives
\* vectors of one dimension).  A similarity dot/(norm1*norm2) is kept exact
\* as the pair num, den2 standing for num / sqrt(den2).
DocVecs == { <<1, 0>>, <<0, 1>>, <<1, 1>> }
QueryVecs == { <<1, 0>>, <<0, 0>>, <<2, 1>>, <<-1, 1>> }

Dot(v, w) == v[1] * w[1] + v[2] * w[2]

Sim(num, den2) == [num |-> num, den2 |-> den2]

_cosine_similarity(vec1, vec2) ==
    IF Dot(vec1, vec1) = 0 \/ Dot(vec2, vec2) = 0
    THEN Sim(0, 1)
    ELSE Sim(Dot(vec1, vec2), Dot(vec1, vec1) * Dot(vec2, vec2))

Sign(n) == IF n > 0 THEN 1 ELSE IF n < 0 THEN -1 ELSE 0

\* a < b as numbers: sign(num) * num^2 / den2 grows with num / sqrt(den2)
SimLess(a, b) ==
    Sign(a.num) * a.num * a.num * b.den2 < Sign(b.num) * b.num * b.num * a.den2

\* list.sort(key=similarity, reverse=True): descending and stable, so equal
\* similarities keep the order they had.
InsertDesc(sorted, x) ==
    LET before == { i \in DOMAIN sorted : SimLess(sorted[i].similarity, x.similarity) }
        at == IF before = {} THEN Len(sorted) + 1 ELSE Min(before)
    IN SubSeq(sorted, 1, at - 1) \o <<x>> \o SubSeq(sorted, at, Len(sorted))

RECURSIVE SortDescending(_)
SortDescending(xs) ==
    IF xs = <<>> THEN <<>>
    ELSE InsertDesc(SortDescending(SubSeq(xs, 1, Len(xs) - 1)), xs[Len(xs)])

\* What the embeddings call can do: raise, answer with no data, or answer
\* with a vector.
EmbedOutcome(k, v) == [kind |-> k, vec |-> v]

EmbedFailures == { EmbedOutcome("raise", <<0, 0>>), EmbedOutcome("nodata", <<0, 0>>) }

DocEmbedOutcomes == { EmbedOutcome("raise", <<0, 0>>) } \cup { EmbedOutcome("vec", v) : v \in DocVecs }

QueryEmbedOutcomes == EmbedFailures \cup { EmbedOutcome("vec", v) : v \in QueryVecs }

\* self.embeddings is a dict: its entries in insertion order.  Assigning to
\* a key that is there replaces the value in place.
IndexOf(embeddings_, url) == { i \in DOMAIN embeddings_ : embeddings_[i].url = url }

SetItem(embeddings_, entry) ==
    IF IndexOf(embeddings_, entry.url) = {}
    THEN Append(embeddings_, entry)
    ELSE [ embeddings_ EXCEPT ![Min(IndexOf(embeddings_, entry.url))] = entry ]

EmbedDocKeepFirst(embeddings_, item, outcome) ==
    IF outcome.kind # "vec" \/ IndexOf(embeddings_, item.url) # {}
    THEN embeddings_
    ELSE Append(embeddings_, [ url |-> item.url, embedding |-> outcome.vec,
                               content |-> item.content, title |-> item.title ])

\* One pass of the loop of create_embeddings: a failed call is caught and
\* leaves the index as it was.
EmbedDoc(embeddings_, item, outcome) ==
    IF outcome.kind # "vec"
    THEN embeddings_
    ELSE SetItem(embeddings_, [ url |-> item.url, embedding |-> outcome.vec,
                                content |-> item.content, title |-> item.title ])

Similarities(embeddings_, query_embedding) ==
    [ i \in DOMAIN embeddings_ |->
        [ url |-> embeddings_[i].url,
          title |-> embeddings_[i].title,
          content |-> embeddings_[i].content,
          similarity |-> _cosine_similarity(query_embedding, embeddings_[i].embedding) ] ]

\* list[:k], k >= 0
Slice(xs, k) == SubSeq(xs, 1, IF k < Len(xs) THEN k ELSE Len(xs))

SearchResult(results, calls) == [results |-> results, embed_calls |-> calls]

SearchUnsorted(embeddings_, outcome, top_k) ==
    IF embeddings_ = <<>> THEN SearchResult(<<>>, 0)
    ELSE IF outcome.kind # "vec" THEN SearchResult(<<>>, 1)
    ELSE SearchResult(Slice(Similarities(embeddings_, outcome.vec), top_k), 1)

\* A plausible slip: a failed query embedding falls back to the documents
\* in index order.
SearchFallsBack(embeddings_, outcome, top_k) ==
    IF embeddings_ = <<>> THEN SearchResult(<<>>, 0)
    ELSE IF outcome.kind # "vec"
    THEN SearchResult(Slice(Similarities(embeddings_, <<0, 0>>), top_k), 1)
    ELSE SearchResult(Slice(SortDescending(Similarities(embeddings_, outcome.vec)), top_k), 1)

SearchAlwaysEmbeds(embeddings_, outcome, top_k) ==
    IF outcome.kind # "vec" THEN SearchResult(<<>>, 1)
    ELSE SearchResult(Slice(SortDescending(Similarities(embeddings_, outcome.vec)), top_k), 1)

\* search_relevant_content(query, top_k): the results and the number of
\* embedding calls made.  Every exception after the emptiness test is caught.
search_relevant_content(embeddings_, outcome, top_k) ==
    IF embeddings_ = <<>> THEN SearchResult(<<>>, 0)
    ELSE IF outcome.kind # "vec" THEN SearchResult(<<>>, 1)
    ELSE SearchResult(Slice(SortDescending(Similarities(embeddings_, outcome.vec)), top_k), 1)

\* ------------------------------- src/knowledge_base.py: generate_answer
AnswerTopK == 3

NotFoundAnswer ==
    <<"I couldn't find relevant information in the knowledge base to answer your question. Please contact our support team for assistance.">>

ErrorAnswer ==
    <<"I encountered an error while generating an answer. Please try again or contact support.">>

\* Completion text for an answer: characters, " " being whitespace.
RECURSIVE StripChars(_)
StripChars(t) ==
    IF t = <<>> THEN <<>>
    ELSE IF Head(t) = " " THEN StripChars(Tail(t))
    ELSE IF t[Len(t)] = " " THEN StripChars(SubSeq(t, 1, Len(t) - 1))
    ELSE t

AnswerOutcomes ==
    FailedOutcomes \cup
    { Outcome("text", t) : t \in { <<>>, <<"a">>, <<" ", "a", "b", " ">> } }

AnswerResult(answer_, sources, embed_calls, chat_calls, relevant) ==
    [ exc |-> None, answer |-> answer_, sources |-> sources, embed_calls |-> embed_calls,
      chat_calls |-> chat_calls, relevant_content |-> relevant ]

Urls(items) == [ i \in DOMAIN items |-> items[i].url ]

GenerateAnswerKeepsSources(embeddings_, query_outcome, chat_outcome) ==
    LET found == search_relevant_content(embeddings_, query_outcome, AnswerTopK)
        relevant_content == found.results
    IN IF relevant_content = <<>>
       THEN AnswerResult(NotFoundAnswer, <<>>, found.embed_calls, 0, relevant_content)
       ELSE IF chat_outcome.kind # "text"
       THEN AnswerResult(ErrorAnswer, Urls(relevant_content), found.embed_calls, 1, relevant_content)
       ELSE AnswerResult(StripChars(chat_outcome.text), Urls(relevant_content),
                         found.embed_calls, 1, relevant_content)

GenerateAnswerAlwaysCompletes(embeddings_, query_outcome, chat_outcome) ==
    LET found == search_relevant_content(embeddings_, query_outcome, AnswerTopK)
        relevant_content == found.results
    IN IF chat_outcome.kind # "text"
       THEN AnswerResult(ErrorAnswer, <<>>, found.embed_calls, 1, relevant_content)
       ELSE AnswerResult(StripChars(chat_outcome.text), Urls(relevant_content),
                         found.embed_calls, 1, relevant_content)

\* generate_answer(query, topic): the answer, the sources, and the calls
\* made.  A raise of the completion call, an empty choices list (IndexError)
\* and a None content (AttributeError on strip) are all caught.
generate_answer(embeddings_, query_outcome, chat_outcome) ==
    LET found == search_relevant_content(embeddings_, query_outcome, AnswerTopK)
        relevant_content == found.results
    IN IF relevant_content = <<>>
       THEN AnswerResult(NotFoundAnswer, <<>>, found.embed_calls, 0, relevant_content)
       ELSE IF chat_outcome.kind # "text"
       THEN AnswerResult(ErrorAnswer, <<>>, found.embed_calls, 1, relevant_content)
       ELSE AnswerResult(StripChars(chat_outcome.text), Urls(relevant_content),
                         found.embed_calls, 1, relevant_content)

\* The documents handed to create_embeddings: three URLs, one of them
\* scraped twice with different content.
DocUrlA == <<"https://", "seed.example", "/docs/a">>
DocUrlB == <<"https://", "seed.example", "/docs/b">>
DocUrlC == <<"https://", "seed.example", "/docs/c">>

Doc(url, title_, content) == [url |-> url, title |-> title_, content |-> content]

Docs ==
    { Doc(DocUrlA, "A", <<Run("w", 150)>>),
      Doc(DocUrlA, "A2", <<Run("w", 300)>>),
      Doc(DocUrlB, "B", <<Run("w", 2000)>>),
      Doc(DocUrlC, "Untitled", <<Run("w", 101)>>) }

\* --------------------------------- src/app.py: handle_interactive_agent
\* The text typed into the ticket box, as runs of whitespace and of other
\* characters.
NewTickets ==
    { <<>>, <<Run("s", 2)>>, <<Run("w", 20)>>, <<Run("s", 1), Run("w", 20), Run("s", 1)>> }

\* A well-formed completion that names the topic.
ClassifiedAs(topic) ==
    <<LBRACE, Tok("topic", topic), Tok("sentiment", "Curious"),
      Tok("priority", "P1 (Medium)"), Tok("reasoning", "because"), RBRACE>>

AppOutcomes ==
    FailedOutcomes \cup { Outcome("text", <<CHATTER>>) } \cup
    { Outcome("text", ClassifiedAs(t)) : t \in TOPIC_TAGS }

rag_topics == {"How-to", "Product", "Best practices", "API/SDK", "SSO"}

\* str.lower() on a topic tag
TopicLower(topic) ==
    CASE topic = "How-to" -> "how-to"
      [] topic = "Product" -> "product"
      [] topic = "Best practices" -> "best practices"
      [] topic = "API/SDK" -> "api/sdk"
      [] topic = "SSO" -> "sso"
      [] topic = "Connector" -> "connector"
      [] topic = "Lineage" -> "lineage"
      [] topic = "Glossary" -> "glossary"
      [] topic = "Sensitive data" -> "sensitive data"
      [] OTHER -> topic

Response(answer_, sources) == [answer |-> answer_, sources |-> sources]

NoResponse == Response(<<>>, <<>>)

\* The response dict built in the rag_topics branch.
PlaceholderResponse(topic) ==
    Response(<<"Based on your question about ", TopicLower(topic),
               ", here's what I found in our documentation...\n\n[This would be a real response generated from the knowledge base using RAG pipeline]">>,
             << <<"https://", "docs.atlan.com", "/getting-started/">>,
                <<"https://", "docs.atlan.com", "/authentication/">>,
                <<"https://", "developer.atlan.com", "/api-reference/">> >>)

RoutingMessage(topic) ==
    <<"This ticket has been classified as a '", topic,
      "' issue and routed to the appropriate team.">>

VARIABLES
    pc,                  \* position of the operation in progress
    raised,              \* the exception that left the operation, or None
    title,               \* classify_ticket: argument
    description,         \* classify_ticket: argument
    completion,          \* classify_ticket: what the completion call did
    classification,      \* classify_ticket: the value returned
    tickets0,            \* classify_bulk_tickets: the tickets as passed in
    tickets,             \* classify_bulk_tickets: the caller's list, as it is now
    classified_tickets,  \* classify_bulk_tickets: the list being built
    prompts,             \* the prompts of the completion calls made, in order
    completions,         \* what each of those completion calls did
    returned,            \* classify_bulk_tickets: the value returned
    embeddings,          \* KnowledgeBase.embeddings, in insertion order
    content_list,        \* create_embeddings: the documents not yet embedded
    embed_call,          \* create_embeddings: the last item embedded, what the call did
    last_write,          \* per URL, the last document whose embeddings call succeeded
    kb_op,               \* the last finished operation on the knowledge base
    top_k,               \* search_relevant_content: argument
    query_embedding,     \* what the embeddings call for the query did
    answer_completion,   \* generate_answer: what the completion call did
    search_result,       \* search_relevant_content: results, embedding calls made
    answer_result,       \* generate_answer: answer, sources, calls made
    max_pages,           \* scrape_documentation: argument
    seed_page,           \* what fetching base_url gave: the hrefs, or an error
    doc_links,           \* scrape_documentation: the crawl candidates
    next_link,           \* scrape_documentation: index of the candidate up next
    visited_urls,        \* scrape_documentation: URLs scraped with success
    scraped_content,     \* scrape_documentation: the documents so far
    fetched,             \* the candidate URLs requested, in order
    page,                \* what the last candidate fetched gave
    scrape_returned,     \* scrape_documentation: the value returned
    new_ticket,          \* handle_interactive_agent: the text in the ticket box
    components_ok,       \* whether initialize_ai_components() gives True
    shown,               \* handle_interactive_agent: which final message is shown
    response,            \* handle_interactive_agent: the answer and sources shown
    routing_message      \* handle_interactive_agent: the routing text shown

clsVars == <<raised, title, description, completion, classification>>
bulkVars == <<tickets0, tickets, classified_tickets, prompts, completions, returned>>
kbVars == <<embeddings, content_list, embed_call, last_write, kb_op, top_k, query_embedding, answer_completion,
            search_result, answer_result>>
scrapeVars == <<max_pages, seed_page, doc_links, next_link, visited_urls, scraped_content,
                fetched, page, scrape_returned>>
appVars == <<new_ticket, components_ok, shown, response, routing_message>>
vars == <<pc, clsVars, bulkVars, kbVars, scrapeVars, appVars>>

ClsIdle ==
    /\ raised = None
    /\ title = ""
    /\ description = ""
    /\ completion = Outcome("raise", <<>>)
    /\ classification = None

BulkIdle ==
    /\ tickets0 = <<>>
    /\ tickets = <<>>
    /\ classified_tickets = <<>>
    /\ prompts = <<>>
    /\ completions = <<>>
    /\ returned = <<>>

NoSearch == SearchResult(<<>>, 0)
NoAnswer == AnswerResult(<<>>, <<>>, 0, 0, <<>>)

EmbedCall(item, outcome) == [item |-> item, outcome |-> outcome]

NoEmbedCall == EmbedCall(Doc(<<>>, "", <<>>), EmbedOutcome("raise", <<0, 0>>))

\* The url, title and content of a document or of an index entry.
Written(d) == [url |-> d.url, title |-> d.title, content |-> d.content]

KbIdle ==
    /\ embeddings = <<>>
    /\ content_list = <<>>
    /\ embed_call = NoEmbedCall
    /\ last_write = {}
    /\ kb_op = "none"
    /\ top_k = 0
    /\ query_embedding = EmbedOutcome("raise", <<0, 0>>)
    /\ answer_completion = Outcome("raise", <<>>)
    /\ search_result = NoSearch
    /\ answer_result = NoAnswer

SeedFetch(k, links) == [status |-> k, links |-> links]

ScrapeIdle ==
    /\ max_pages = 0
    /\ seed_page = SeedFetch("error", <<>>)
    /\ doc_links = <<>>
    /\ next_link = 1
    /\ visited_urls = {}
    /\ scraped_content = <<>>
    /\ fetched = <<>>
    /\ page = PageError
    /\ scrape_returned = <<>>

AppIdle ==
    /\ new_ticket = <<>>
    /\ components_ok = FALSE
    /\ shown = "nothing"
    /\ response = NoResponse
    /\ routing_message = <<>>

\* ------------------------------------------------ classify_ticket, alone
InitClassify ==
    /\ pc = "classify"
    /\ raised = None
    /\ title = "New Ticket"
    /\ description \in {"", "d"}
    /\ completion \in Outcomes
    /\ classification = None
    /\ BulkIdle
    /\ KbIdle
    /\ ScrapeIdle
    /\ AppIdle

ClassifyTicket ==
    /\ pc = "classify"
    /\ raised' = classify_ticket(completion).exc
    /\ classification' = classify_ticket(completion).val
    /\ pc' = "classified"
    /\ UNCHANGED <<title, description, completion, bulkVars, kbVars, scrapeVars, appVars>>

NextClassify == ClassifyTicket

SpecClassify == InitClassify /\ [][NextClassify]_vars

\* ------------------------------------------------ classify_bulk_tickets
InitBulk ==
    /\ pc = "bulk"
    /\ ClsIdle
    /\ tickets0 \in SeqsUpTo(Tickets, MaxTickets)
    /\ tickets = tickets0
    /\ classified_tickets = <<>>
    /\ prompts = <<>>
    /\ completions = <<>>
    /\ returned = <<>>
    /\ KbIdle
    /\ ScrapeIdle
    /\ AppIdle

\* One iteration of "for ticket in tickets": a completion call, the merge.
BulkIterate ==
    /\ pc = "bulk"
    /\ Len(classified_tickets) < Len(tickets)
    /\ \E outcome \in BulkOutcomes :
         LET i == Len(classified_tickets) + 1
             ticket == tickets[i]
             prompt == _create_classification_prompt(GetOr(ticket, "title", ""),
                                                     GetOr(ticket, "description", ""))
             c == classify_ticket(outcome).val
             pass == BulkPass(ticket, c, classified_tickets)
         IN /\ prompts' = Append(prompts, prompt)
            /\ completions' = Append(completions, outcome)
            /\ tickets' = [tickets EXCEPT ![i] = pass.ticket]
            /\ classified_tickets' = pass.acc
    /\ UNCHANGED <<pc, clsVars, tickets0, returned, kbVars, scrapeVars, appVars>>

BulkReturn ==
    /\ pc = "bulk"
    /\ Len(classified_tickets) >= Len(tickets)
    /\ returned' = classified_tickets
    /\ pc' = "returned"
    /\ UNCHANGED <<clsVars, tickets0, tickets, classified_tickets, prompts, completions,
                   kbVars, scrapeVars, appVars>>

NextBulk == BulkIterate \/ BulkReturn

SpecBulk == InitBulk /\ [][NextBulk]_vars

\* ------------------------------------------------------- knowledge base
InitKb ==
    /\ pc = "kb"
    /\ ClsIdle
    /\ BulkIdle
    /\ KbIdle
    /\ ScrapeIdle
    /\ AppIdle

\* create_embeddings(content_list) is entered.
CreateEmbeddings ==
    /\ pc = "kb"
    /\ \E items \in SeqsUpTo(Docs, MaxBatch) :
         /\ content_list' = items
         /\ pc' = IF items = <<>> THEN "kb_returned" ELSE "embedding"
    /\ kb_op' = "index"
    /\ UNCHANGED <<embeddings, embed_call, last_write, top_k, query_embedding, answer_completion, search_result,
                   answer_result, clsVars, bulkVars, scrapeVars, appVars>>

\* One pass of "for item in content_list": an embeddings call, the store.
EmbedItem ==
    /\ pc = "embedding"
    /\ \E outcome \in DocEmbedOutcomes :
         LET item == Head(content_list)
         IN /\ embeddings' = EmbedDoc(embeddings, item, outcome)
            /\ embed_call' = EmbedCall(item, outcome)
            /\ last_write' = IF outcome.kind = "vec"
                              THEN { w \in last_write : w.url # item.url } \cup {Written(item)}
                              ELSE last_write
    /\ content_list' = Tail(content_list)
    /\ pc' = IF Tail(content_list) = <<>> THEN "kb_returned" ELSE "embedding"
    /\ UNCHANGED <<kb_op, top_k, query_embedding, answer_completion, search_result,
                   answer_result, clsVars, bulkVars, scrapeVars, appVars>>

Search ==
    /\ pc = "kb"
    /\ \E k \in 0..MaxTopK, outcome \in QueryEmbedOutcomes :
         /\ top_k' = k
         /\ query_embedding' = outcome
         /\ search_result' = search_relevant_content(embeddings, outcome, k)
    /\ kb_op' = "search"
    /\ pc' = "kb_returned"
    /\ UNCHANGED <<embeddings, content_list, embed_call, last_write, answer_completion, answer_result,
                   clsVars, bulkVars, scrapeVars, appVars>>

GenerateAnswer ==
    /\ pc = "kb"
    /\ \E outcome \in QueryEmbedOutcomes, chat \in AnswerOutcomes :
         /\ query_embedding' = outcome
         /\ answer_completion' = chat
         /\ answer_result' = generate_answer(embeddings, outcome, chat)
    /\ kb_op' = "answer"
    /\ top_k' = AnswerTopK
    /\ pc' = "kb_returned"
    /\ UNCHANGED <<embeddings, content_list, embed_call, last_write, search_result,
                   clsVars, bulkVars, scrapeVars, appVars>>

\* The caller takes the value returned; the knowledge base waits for the
\* next call.
KbReturn ==
    /\ pc = "kb_returned"
    /\ pc' = "kb"
    /\ kb_op' = "none"
    /\ top_k' = 0
    /\ query_embedding' = EmbedOutcome("raise", <<0, 0>>)
    /\ answer_completion' = Outcome("raise", <<>>)
    /\ search_result' = NoSearch
    /\ answer_result' = NoAnswer
    /\ embed_call' = NoEmbedCall
    /\ UNCHANGED <<embeddings, content_list, last_write, clsVars, bulkVars, scrapeVars, appVars>>

NextKb == CreateEmbeddings \/ EmbedItem \/ Search \/ GenerateAnswer \/ KbReturn

SpecKb == InitKb /\ [][NextKb]_vars

\* ------------------------------------------------- scrape_documentation
SeedPages ==
    { SeedFetch("error", <<>>) } \cup { SeedFetch("ok", links) : links \in SeqsUpTo(Hrefs, MaxLinks) }

InitScrape ==
    /\ pc = "scrape"
    /\ ClsIdle
    /\ BulkIdle
    /\ KbIdle
    /\ AppIdle
    /\ max_pages \in 0..MaxPages
    /\ seed_page \in SeedPages
    /\ doc_links = <<>>
    /\ next_link = 1
    /\ visited_urls = {}
    /\ scraped_content = <<>>
    /\ fetched = <<>>
    /\ page = PageError
    /\ scrape_returned = <<>>

\* requests.get(base_url) raises: the except clause, then the return.
SeedFails ==
    /\ pc = "scrape"
    /\ seed_page.status = "error"
    /\ scrape_returned' = scraped_content
    /\ pc' = "scraped"
    /\ UNCHANGED <<max_pages, seed_page, doc_links, next_link, visited_urls, scraped_content,
                   fetched, page, clsVars, bulkVars, kbVars, appVars>>

\* The seed page is parsed and the candidates are collected.
CollectCandidates ==
    /\ pc = "scrape"
    /\ seed_page.status = "ok"
    /\ doc_links' = CollectLinks(seed_page.links, SeedUrl, max_pages, <<>>)
    /\ pc' = "fetching"
    /\ UNCHANGED <<max_pages, seed_page, next_link, visited_urls, scraped_content,
                   fetched, page, scrape_returned, clsVars, bulkVars, kbVars, appVars>>

\* "for url in doc_links[:max_pages]", url not yet visited: the page is
\* fetched and kept when _scrape_page gives a document.
FetchPage ==
    /\ pc = "fetching"
    /\ next_link <= Len(Slice(doc_links, max_pages))
    /\ doc_links[next_link] \notin visited_urls
    /\ \E p \in Pages :
         LET url == doc_links[next_link]
             content == _scrape_page(url, p)
         IN /\ page' = p
            /\ fetched' = Append(fetched, url)
            /\ scraped_content' = IF content.ok THEN Append(scraped_content, content.doc)
                                  ELSE scraped_content
            /\ visited_urls' = IF content.ok THEN visited_urls \cup {url} ELSE visited_urls
    /\ next_link' = next_link + 1
    /\ UNCHANGED <<pc, max_pages, seed_page, doc_links, scrape_returned,
                   clsVars, bulkVars, kbVars, appVars>>

\* The same loop, url already visited: nothing is fetched.
SkipVisited ==
    /\ pc = "fetching"
    /\ next_link <= Len(Slice(doc_links, max_pages))
    /\ doc_links[next_link] \in visited_urls
    /\ next_link' = next_link + 1
    /\ UNCHANGED <<pc, max_pages, seed_page, doc_links, visited_urls, scraped_content,
                   fetched, page, scrape_returned, clsVars, bulkVars, kbVars, appVars>>

ScrapeReturn ==
    /\ pc = "fetching"
    /\ next_link > Len(Slice(doc_links, max_pages))
    /\ scrape_returned' = scraped_content
    /\ pc' = "scraped"
    /\ UNCHANGED <<max_pages, seed_page, doc_links, next_link, visited_urls, scraped_content,
                   fetched, page, clsVars, bulkVars, kbVars, appVars>>

NextScrape == SeedFails \/ CollectCandidates \/ FetchPage \/ SkipVisited \/ ScrapeReturn

SpecScrape == InitScrape /\ [][NextScrape]_vars

\* ------------------------------------------- the Submit Ticket button
\* The session's KnowledgeBase is the one KnowledgeBase() constructs: its
\* index is empty.
InitApp ==
    /\ pc = "submit"
    /\ raised = None
    /\ title = ""
    /\ description = <<>>
    /\ completion \in AppOutcomes
    /\ classification = None
    /\ BulkIdle
    /\ KbIdle
    /\ ScrapeIdle
    /\ new_ticket \in NewTickets
    /\ components_ok \in BOOLEAN
    /\ shown = "nothing"
    /\ response = NoResponse
    /\ routing_message = <<>>

\* The body of "if st.button(...)": from the click to the last message.
handle_interactive_agent ==
    /\ pc = "submit"
    /\ pc' = "submitted"
    /\ IF strip(new_ticket) = <<>>
       THEN /\ shown' = "warning"
            /\ UNCHANGED <<clsVars, response, routing_message>>
       ELSE IF ~components_ok
       THEN /\ shown' = "error"
            /\ UNCHANGED <<clsVars, response, routing_message>>
       ELSE LET result == classify_ticket(completion)
            IN /\ title' = "New Ticket"
               /\ description' = new_ticket
               /\ raised' = result.exc
               /\ classification' = result.val
               /\ UNCHANGED completion
               /\ IF result.val["topic"] \in rag_topics
                  THEN /\ shown' = "response"
                       /\ response' = PlaceholderResponse(result.val["topic"])
                       /\ UNCHANGED routing_message
                  ELSE /\ shown' = "routed"
                       /\ routing_message' = RoutingMessage(result.val["topic"])
                       /\ UNCHANGED response
    /\ UNCHANGED <<new_ticket, components_ok, bulkVars, kbVars, scrapeVars>>

NextApp == handle_interactive_agent

SpecApp == InitApp /\ [][NextApp]_vars

\* ================================================================ claims
RequiredFields == {"topic", "sentiment", "priority"}

\* The response has some "{" with a "}" after it.
HasBraceDelimited(text) ==
    \E i, j \in DOMAIN text : i < j /\ text[i] = LBRACE /\ text[j] = RBRACE

FieldsInEnumerations(c) ==
    /\ RequiredFields \subseteq DOMAIN c
    /\ c["topic"] \in TOPIC_TAGS
    /\ c["sentiment"] \in SENTIMENT_OPTIONS
    /\ c["priority"] \in PRIORITY_LEVELS

\* The completion gave nothing that parses to a classification with all
\* three fields inside their enumerations.
FailedOrMalformed(o) ==
    \/ o.kind # "text"
    \/ ~HasBraceDelimited(o.text)
    \/ ~json_parses(re_search(o.text))
    \/ ~FieldsInEnumerations(json_loads(re_search(o.text)))

\* C1: classify is total: whatever the completion call does (raise, no
\* text, text without a JSON object, unparsable JSON, JSON with wrong or
\* missing fields), no exception leaves classify_ticket and the record
\* returned has topic, sentiment and priority inside their enumerations.
C1_ClassifyTotal ==
    pc = "classified" =>
        /\ raised = None
        /\ FieldsInEnumerations(classification)

C1_Witness ==
    /\ pc = "classified"
    /\ completion.kind = "text"
    /\ HasBraceDelimited(completion.text)
    /\ json_parses(re_search(completion.text))
    /\ Get(json_loads(re_search(completion.text)), "topic") = "Connector"
    /\ Get(json_loads(re_search(completion.text)), "sentiment") = "Meh"
    /\ classification["sentiment"] = "Neutral"

\* C2: a response with no brace-delimited substring, or whose substring
\* does not parse, or with one of topic/sentiment/priority missing or
\* outside its enumeration, gives exactly the default record, never a mix
\* of model fields and default fields; any other response gives the parsed
\* object unchanged.
C2_DefaultOrParsed ==
    (pc = "classified" /\ completion.kind = "text") =>
        IF FailedOrMalformed(completion)
        THEN classification = _get_default_classification
        ELSE classification = json_loads(re_search(completion.text))

C2_Witness ==
    /\ pc = "classified"
    /\ completion.kind = "text"
    /\ HasBraceDelimited(completion.text)
    /\ json_parses(re_search(completion.text))
    /\ Get(json_loads(re_search(completion.text)), "topic") = "Not-A-Real-Topic"
    /\ Get(json_loads(re_search(completion.text)), "sentiment") = "Angry"
    /\ Get(json_loads(re_search(completion.text)), "priority") = "P0 (High)"
    /\ classification = _get_default_classification

\* C3: classify_bulk returns one result per input ticket, the i-th built
\* from the i-th ticket; one completion call is made per ticket, in input
\* order; a failed or malformed completion for ticket i gives ticket i the
\* default classification and changes no other result.
C3_BulkOrder ==
    pc = "returned" =>
        /\ Len(returned) = Len(tickets0)
        /\ Len(prompts) = Len(tickets0)
        /\ \A i \in DOMAIN tickets0 :
             /\ prompts[i] = [ title |-> GetOr(tickets0[i], "title", ""),
                               description |-> GetOr(tickets0[i], "description", "") ]
             /\ \A k \in (DOMAIN tickets0[i]) \ (DOMAIN classify_ticket(completions[i]).val) :
                  /\ k \in DOMAIN returned[i]
                  /\ returned[i][k] = tickets0[i][k]
             /\ \A k \in DOMAIN classify_ticket(completions[i]).val :
                  /\ k \in DOMAIN returned[i]
                  /\ returned[i][k] = classify_ticket(completions[i]).val[k]
             /\ FailedOrMalformed(completions[i]) =>
                  \A k \in DOMAIN _get_default_classification :
                      returned[i][k] = _get_default_classification[k]

C3_Witness ==
    /\ pc = "returned"
    /\ Len(tickets0) = 2
    /\ tickets0[1] # tickets0[2]
    /\ completions[1].kind = "raise"
    /\ returned[1]["topic"] = "Product"
    /\ returned[2]["topic"] = "Connector"
    /\ returned[2]["id"] = tickets0[2]["id"]

\* C4: every result of classify_bulk keeps all the fields of its ticket
\* with their original values and adds the classification fields, and the
\* tickets passed in are not changed.
C4_RetainsTicketFields ==
    pc = "returned" =>
        /\ tickets = tickets0
        /\ Len(returned) = Len(tickets0)
        /\ \A i \in DOMAIN tickets0 :
             /\ \A k \in DOMAIN tickets0[i] :
                  /\ k \in DOMAIN returned[i]
                  /\ returned[i][k] = tickets0[i][k]
             /\ RequiredFields \subseteq DOMAIN returned[i]

NonIncreasing(results) ==
    \A i, j \in DOMAIN results :
        i < j => ~SimLess(results[i].similarity, results[j].similarity)

\* Each result is the record of one indexed document, with its similarity
\* to the query, and no document is returned twice.
FromIndex(results, vec) ==
    /\ \A i \in DOMAIN results :
         \E e \in DOMAIN embeddings :
             /\ results[i].url = embeddings[e].url
             /\ results[i].title = embeddings[e].title
             /\ results[i].content = embeddings[e].content
             /\ results[i].similarity = _cosine_similarity(vec, embeddings[e].embedding)
    /\ \A i, j \in DOMAIN results : results[i].url = results[j].url => i = j

LeftOut(results) ==
    { e \in DOMAIN embeddings : \A i \in DOMAIN results : results[i].url # embeddings[e].url }

\* C5: on a non-empty index of n documents, with the query embedded and
\* top_k >= 0, search returns min(top_k, n) results, in non-increasing
\* order of similarity, and no document left out is strictly more similar
\* to the query than one returned.
C5_SearchRanking ==
    (/\ pc = "kb_returned"
     /\ kb_op = "search"
     /\ embeddings # <<>>
     /\ query_embedding.kind = "vec") =>
        LET results == search_result.results
            n == Len(embeddings)
        IN /\ Len(results) = (IF top_k < n THEN top_k ELSE n)
           /\ FromIndex(results, query_embedding.vec)
           /\ NonIncreasing(results)
           /\ \A e \in LeftOut(results) : \A i \in DOMAIN results :
                ~SimLess(results[i].similarity,
                         _cosine_similarity(query_embedding.vec, embeddings[e].embedding))

C5_Witness ==
    /\ pc = "kb_returned"
    /\ kb_op = "search"
    /\ Len(embeddings) = 3
    /\ top_k = 2
    /\ query_embedding.kind = "vec"
    /\ Len(search_result.results) = 2
    /\ search_result.results[1].url = embeddings[3].url
    /\ search_result.results[2].url = embeddings[1].url
    /\ SimLess(search_result.results[2].similarity, search_result.results[1].similarity)
    /\ SimLess(_cosine_similarity(query_embedding.vec, embeddings[2].embedding),
               search_result.results[2].similarity)

\* C6: search on an empty index returns the empty sequence and makes no
\* embedding call, whatever the query and top_k.
C6_SearchEmptyIndex ==
    (pc = "kb_returned" /\ kb_op = "search" /\ embeddings = <<>>) =>
        /\ search_result.results = <<>>
        /\ search_result.embed_calls = 0

C6_Witness ==
    /\ pc = "kb_returned"
    /\ kb_op = "search"
    /\ embeddings = <<>>
    /\ top_k = 2
    /\ query_embedding.kind = "vec"
    /\ search_result.embed_calls = 0

\* C7: answer on an empty index, or whenever search gives no results,
\* returns the fixed not-found answer with no sources and makes no
\* completion call.
C7_AnswerNotFound ==
    (/\ pc = "kb_returned"
     /\ kb_op = "answer"
     /\ (embeddings = <<>> \/ answer_result.relevant_content = <<>>)) =>
        /\ answer_result.exc = None
        /\ answer_result.answer = NotFoundAnswer
        /\ answer_result.sources = <<>>
        /\ answer_result.chat_calls = 0

C7_Witness ==
    /\ pc = "kb_returned"
    /\ kb_op = "answer"
    /\ embeddings = <<>>
    /\ query_embedding.kind = "vec"
    /\ answer_completion.kind = "text"
    /\ answer_result.answer = NotFoundAnswer

\* C8: when search gave results and the completion call fails (it raises,
\* or its response carries no text), answer raises nothing and returns the
\* fixed error answer with no sources; sources are returned only when the
\* completion succeeded, and then they are the URLs of the results in the
\* order of the similarity ranking.
C8_AnswerErrorFallback ==
    (/\ pc = "kb_returned"
     /\ kb_op = "answer"
     /\ answer_result.relevant_content # <<>>) =>
        /\ answer_result.exc = None
        /\ answer_completion.kind # "text" =>
             /\ answer_result.answer = ErrorAnswer
             /\ answer_result.sources = <<>>
        /\ answer_result.sources # <<>> => answer_completion.kind = "text"
        /\ answer_completion.kind = "text" =>
             /\ Len(answer_result.sources) = Len(answer_result.relevant_content)
             /\ \A i \in DOMAIN answer_result.sources :
                  answer_result.sources[i] = answer_result.relevant_content[i].url
             /\ NonIncreasing(answer_result.relevant_content)
             /\ FromIndex(answer_result.relevant_content, query_embedding.vec)

C8_Witness ==
    /\ pc = "kb_returned"
    /\ kb_op = "answer"
    /\ Len(answer_result.relevant_content) = 2
    /\ answer_completion.kind = "none"
    /\ answer_result.answer = ErrorAnswer
    /\ answer_result.sources = <<>>

\* The URL has the seed's network authority and, lower-cased, holds none of
\* the skip patterns.
Acceptable(url) ==
    /\ url[2] = SeedUrl[2]
    /\ \A i \in DOMAIN url :
         LowerPiece(url[i]) \notin {".pdf", ".zip", ".jpg", ".png", ".gif", "/api/", "/search"}

ExampleLinks ==
    << <<"https://", "seed.example", "/docs/a">>,
       <<"https://", "other.example", "/x">>,
       <<"https://", "seed.example", "/file", ".pdf">> >>

\* C9: a link of the seed page becomes a crawl candidate only if its
\* resolved URL has the seed's host and contains no skip pattern, case
\* ignored; of https://seed.example/docs/a, https://other.example/x and
\* https://seed.example/file.pdf only the first is accepted.
C9_CandidateFilter ==
    (pc \in {"fetching", "scraped"} /\ seed_page.status = "ok") =>
        /\ \A i \in DOMAIN doc_links :
             /\ Acceptable(doc_links[i])
             /\ \E j \in DOMAIN seed_page.links :
                  doc_links[i] = urljoin(SeedUrl, seed_page.links[j])
        /\ (seed_page.links = ExampleLinks /\ max_pages >= 1) =>
             doc_links = << <<"https://", "seed.example", "/docs/a">> >>

C9_Witness ==
    /\ pc = "fetching"
    /\ seed_page.status = "ok"
    /\ seed_page.links = ExampleLinks
    /\ max_pages = 2
    /\ doc_links = << <<"https://", "seed.example", "/docs/a">> >>

\* The text _scrape_page extracts from a page, whitespace collapsed: the
\* first matching content region, or the body when that is empty.
ExtractedText(p) ==
    LET region == IF p.region.present THEN strip(p.region.val) ELSE <<>>
        chosen == IF region # <<>> THEN region
                  ELSE IF p.body.present THEN strip(p.body.val) ELSE <<>>
    IN collapse_whitespace(chosen)

DocsOf(url) == { i \in DOMAIN scraped_content : scraped_content[i].url = url }

\* C10: every document scrape returns has more than 100 and at most 2000
\* characters of content: a page whose extracted, whitespace-collapsed text
\* has 100 characters or fewer is left out, a page with more is kept, and
\* longer text is cut to its first 2000 characters.
C10_ContentLength ==
    /\ \A i \in DOMAIN scraped_content :
         /\ TextLen(scraped_content[i].content) > 100
         /\ TextLen(scraped_content[i].content) <= 2000
    /\ \A i \in DOMAIN scrape_returned :
         /\ TextLen(scrape_returned[i].content) > 100
         /\ TextLen(scrape_returned[i].content) <= 2000
    /\ pc = "scraped" => scrape_returned = scraped_content
    /\ (fetched # <<>> /\ page.status = "ok") =>
         LET url == fetched[Len(fetched)]
             text == ExtractedText(page)
         IN IF TextLen(text) <= 100
            THEN DocsOf(url) = {}
            ELSE \E i \in DocsOf(url) :
                   /\ scraped_content[i].content = Take(text, 2000)
                   /\ TextLen(scraped_content[i].content) =
                        (IF TextLen(text) < 2000 THEN TextLen(text) ELSE 2000)

C10_Witness ==
    /\ pc = "scraped"
    /\ Len(scrape_returned) = 2
    /\ TextLen(scrape_returned[1].content) = 101
    /\ TextLen(scrape_returned[2].content) = 2000
    /\ TextLen(ExtractedText(page)) > 2000
    /\ Len(fetched) = 2

\* The first brace-delimited substring of a text: from its first "{" to
\* the first "}" after that.
FirstBraceDelimited(text) ==
    LET first == Min({ i \in DOMAIN text : text[i] = LBRACE })
        close == Min({ j \in DOMAIN text : j > first /\ text[j] = RBRACE })
    IN [ from |-> first, to |-> close, text |-> SubSeq(text, first, close) ]

\* The response is commentary, a JSON object with valid topic, sentiment
\* and priority that is its first brace-delimited substring, commentary.
\* Commentary is any text that is not part of the object: words and braces.
IsCommentedJson(text) ==
    /\ HasBraceDelimited(text)
    /\ LET J == FirstBraceDelimited(text)
       IN /\ json_parses(J.text)
          /\ FieldsInEnumerations(json_loads(J.text))
          /\ \A i \in DOMAIN text : (i < J.from \/ i > J.to) => ~IsMember(text[i])

\* C11: classify parses the first brace-delimited substring of the response
\* and tolerates commentary around it: for a response prefix + J + suffix,
\* J a JSON object with valid topic, sentiment and priority and the first
\* brace-delimited substring, classify returns the classification parsed
\* from J and not the default.
C11_FirstJsonTolerant ==
    (pc = "classified" /\ completion.kind = "text" /\ IsCommentedJson(completion.text)) =>
        classification = json_loads(FirstBraceDelimited(completion.text).text)

\* The accepted URLs of the seed page in discovery order, each once.
RECURSIVE DistinctAccepted(_, _)
DistinctAccepted(links, seen) ==
    IF links = <<>> THEN seen
    ELSE LET url == urljoin(SeedUrl, Head(links))
         IN DistinctAccepted(Tail(links),
                IF Acceptable(url) /\ \A i \in DOMAIN seen : seen[i] # url
                THEN Append(seen, url)
                ELSE seen)

\* C12: scrape collects candidates in discovery order until max_pages
\* distinct candidates are collected: a URL linked several times takes one
\* slot, so the pages fetched are the first max_pages distinct accepted
\* URLs, each fetched at most once; a failed page is not retried.
C12_DistinctCandidates ==
    (pc = "scraped" /\ seed_page.status = "ok") =>
        /\ fetched = Slice(DistinctAccepted(seed_page.links, <<>>), max_pages)
        /\ \A i, j \in DOMAIN fetched : fetched[i] = fetched[j] => i = j

OneRecordPerUrl ==
    \A i, j \in DOMAIN embeddings : embeddings[i].url = embeddings[j].url => i = j

EntryFor(index, url) == { index[i] : i \in IndexOf(index, url) }

\* One pass of the loop of create_embeddings, seen from outside: the loop
\* moves on to the next document whatever the call did; a failed call
\* leaves the whole index as it was; a successful one leaves exactly one
\* entry for the document's URL, with its content, title and vector, and
\* the entries of all other URLs as they were.
EmbedPassEffect ==
    pc = "embedding" =>
        LET item == Head(content_list)
        IN /\ embed_call'.item = item
           /\ content_list' = Tail(content_list)
           /\ pc' = (IF content_list' = <<>> THEN "kb_returned" ELSE "embedding")
           /\ embed_call'.outcome.kind # "vec" => embeddings' = embeddings
           /\ embed_call'.outcome.kind = "vec" =>
                /\ EntryFor(embeddings', item.url) =
                     { [ url |-> item.url, embedding |-> embed_call'.outcome.vec,
                         content |-> item.content, title |-> item.title ] }
                /\ \A d \in Docs : d.url # item.url =>
                     EntryFor(embeddings', d.url) = EntryFor(embeddings, d.url)

\* C13: after any sequence of index calls the index holds at most one
\* record per URL, carrying the content and title of the last document
\* with that URL whose embedding call succeeded; a failed call leaves the
\* index unchanged and the rest of the batch is still indexed.
C13_LastWriteWins ==
    /\ [](/\ OneRecordPerUrl
          /\ { Written(embeddings[i]) : i \in DOMAIN embeddings } = last_write)
    /\ [][EmbedPassEffect]_vars

C13_Witness ==
    /\ pc = "embedding"
    /\ Len(embeddings) = 2
    /\ embeddings[1].url = DocUrlA
    /\ embeddings[1].title = "A2"
    /\ embeddings[2].url = DocUrlB
    /\ embed_call.item.title = "A2"
    /\ embed_call.outcome.kind = "vec"
    /\ Head(content_list).url = DocUrlC

\* C15: with a non-empty index, a query-embedding call that fails makes
\* search return the empty sequence, the index staying as it was, so
\* answer returns the fixed not-found answer (not the error answer) and
\* makes no completion call.
C15_QueryEmbeddingFails ==
    /\ [](( /\ pc = "kb_returned"
            /\ embeddings # <<>>
            /\ kb_op \in {"search", "answer"}
            /\ query_embedding.kind # "vec" ) =>
          /\ kb_op = "search" =>
               /\ search_result.results = <<>>
               /\ search_result.embed_calls = 1
          /\ kb_op = "answer" =>
               /\ answer_result.exc = None
               /\ answer_result.relevant_content = <<>>
               /\ answer_result.answer = NotFoundAnswer
               /\ answer_result.answer # ErrorAnswer
               /\ answer_result.sources = <<>>
               /\ answer_result.embed_calls = 1
               /\ answer_result.chat_calls = 0)
    /\ [][(pc = "kb" /\ kb_op' \in {"search", "answer"}) => embeddings' = embeddings]_vars

C15_Witness ==
    /\ pc = "kb_returned"
    /\ kb_op = "answer"
    /\ Len(embeddings) = 2
    /\ query_embedding.kind = "raise"
    /\ answer_completion.kind = "text"
    /\ answer_result.answer = NotFoundAnswer
    /\ answer_result.chat_calls = 0

\* What a call of generate_answer on the session's index can give back.
AnswerOf(q, c) ==
    LET result == generate_answer(embeddings, q, c)
    IN Response(result.answer, result.sources)

\* C14: after a submitted ticket is classified, a topic in the answerable
\* set means the response shown is the answer and the sources that
\* generate_answer gives for the query, and a topic outside the set means
\* only the routing message is shown.
C14_AnswerableRouting ==
    (pc = "submitted" /\ shown \in {"response", "routed"}) =>
        IF classification["topic"] \in rag_topics
        THEN /\ shown = "response"
             /\ \E q \in QueryEmbedOutcomes, c \in AnswerOutcomes : response = AnswerOf(q, c)
        ELSE /\ shown = "routed"
             /\ response = NoResponse
             /\ routing_message = RoutingMessage(classification["topic"])

====
